---- MODULE Spec2Model ----
(***************************************************************************)
(* Model of the ai-gm-pipeline repository: the incremental PDF ingestion   *)
(* script (process_pdfs.py), the Retriever and the /search endpoint        *)
(* (retriever.py, main.py), the result formatter (main.py) and the         *)
(* llama.cpp wrapper (llm_integration.py).                                 *)
(*                                                                         *)
(* Strings the code inspects character by character (file names, paths,    *)
(* process output) are sequences of one-character strings.  Python values  *)
(* whose type the code tests at run time are tagged records                *)
(* [t |-> "list" | "str" | "dict" | "none", v |-> ...].                    *)
(***************************************************************************)
EXTENDS Integers, Sequences, FiniteSets, TLC

VARIABLES
    fs,               \* PDF_STORE directory: file name -> content
    ledgerFile,       \* HASH_FILE_PATH on disk: missing, or path -> digest
    store,            \* the ChromaDB collection: chunk id -> record
    dupPolicy,        \* what collection.add does with an id already stored
    pc,               \* position of the ingestion script
    processed_files,  \* the script's in-memory ledger copy
    todo,             \* entries of os.listdir(PDF_STORE) not yet visited
    ledgerAtStart,    \* ledgerFile when the current run started
    loaded,           \* what load_processed_files returned in this run
    storeAtStart,     \* store when the current run started
    fsAtStart,        \* fs when the current run started
    called,           \* paths chunk_and_store_pdf was called for in this run
    stored,           \* paths chunk_and_store_pdf returned for in this run
    skipped,          \* paths the run skipped as unchanged
    ledgerWrites,     \* writes to HASH_FILE_PATH in this run
    savesAfterLoop,   \* calls of save_processed_files in this run
    repeatRun,        \* this run follows a completed run over the same files
    edits,            \* number of changes made to PDF_STORE so far
    runs,             \* number of ingestion runs started so far
    qvec,             \* the last query vector handed to collection.query
    searchFailed,     \* the last search had an internal failure
    searchRet,        \* what Retriever.search returned to the endpoint
    httpStatus,       \* status of the last /search response
    httpBody,         \* "response" list of the last /search response
    fmtIn,            \* last arguments of format_search_results
    fmtOut,           \* its return value
    llmIn,            \* last outcome of the llama-run process
    llmOut            \* what generate_response returned for it

ingestVars == <<fs, ledgerFile, store, dupPolicy, pc, processed_files, todo,
                ledgerAtStart, loaded, storeAtStart, fsAtStart, called, stored,
                skipped, ledgerWrites, savesAfterLoop, repeatRun, edits, runs>>
searchVars == <<qvec, searchFailed, searchRet, httpStatus, httpBody>>
fmtVars == <<fmtIn, fmtOut>>
llmVars == <<llmIn, llmOut>>
vars == <<ingestVars, searchVars, fmtVars, llmVars>>

(***************************************************************************)
(* Bounds                                                                  *)
(***************************************************************************)
MaxChunks == 2      \* chunks the splitter yields for one document
MaxEdits == 2       \* changes to the PDF directory
MaxRuns == 2        \* ingestion runs
MaxSearchEdits == 1 \* changes to the PDF directory while queries are served
MaxHits == 2        \* entries in a raw result given to format_search_results
MaxPathLen == 2     \* characters of a metadata source path
MaxOut == 4         \* bytes llama-run writes to its standard output
MaxErr == 1         \* bytes llama-run writes to its error stream

Text == {"x", "y"}                       \* chunk texts
Absent == [kind |-> "absent"]            \* a file that does not exist
NoLedger == [exists |-> FALSE]           \* HASH_FILE_PATH does not exist
None == [t |-> "none"]                   \* Python's None
EmptyMap == <<>>                         \* {} / an empty collection

(***************************************************************************)
(* Strings                                                                 *)
(***************************************************************************)
Lower(c) ==
    CASE c = "P" -> "p"
      [] c = "D" -> "d"
      [] c = "F" -> "f"
      [] OTHER -> c

LowerStr(s) == [i \in 1..Len(s) |-> Lower(s[i])]

EndsWith(s, suffix) ==
    /\ Len(s) >= Len(suffix)
    /\ SubSeq(s, Len(s) - Len(suffix) + 1, Len(s)) = suffix

PdfSuffix == <<".", "p", "d", "f">>

PDF_STORE == <<"d">>

PathJoin(dir, name) == dir \o <<"/">> \o name

\* index of the last "/" in p, 0 when there is none
LastSlash(p) ==
    IF \E i \in 1..Len(p) : p[i] = "/"
    THEN CHOOSE i \in 1..Len(p) :
            /\ p[i] = "/"
            /\ \A j \in (i+1)..Len(p) : p[j] # "/"
    ELSE 0

Basename(p) == SubSeq(p, LastSlash(p) + 1, Len(p))

(***************************************************************************)
(* Python values                                                           *)
(***************************************************************************)
PyList(s) == [t |-> "list", v |-> s]
PyStr(s) == [t |-> "str", v |-> s]
PyInt(i) == [t |-> "int", v |-> i]
PyDict(f) == [t |-> "dict", v |-> f]

IsList(x) == x.t = "list"
IsDict(x) == x.t = "dict"

\* truth value of x in a boolean context
Truthy(x) ==
    CASE x.t = "none" -> FALSE
      [] x.t = "int" -> x.v # 0
      [] OTHER -> x.v # <<>>

Digit(i) == CASE i = 0 -> "0" [] i = 1 -> "1" [] i = 2 -> "2" [] i = 3 -> "3"
              [] i = 4 -> "4" [] i = 5 -> "5" [] i = 6 -> "6" [] i = 7 -> "7"
              [] i = 8 -> "8" [] OTHER -> "9"

\* str(x) for the values a metadata field can hold
Str(x) ==
    CASE x.t = "str" -> x.v
      [] x.t = "int" -> <<Digit(x.v)>>
      [] OTHER -> <<"N", "o", "n", "e">>

Min(a, b) == IF a < b THEN a ELSE b

(***************************************************************************)
(* Files of the PDF directory                                              *)
(***************************************************************************)
FileNames == { <<"a", ".", "p", "d", "f">>,
               <<"b", ".", "P", "D", "F">>,
               <<"n", ".", "t", "x", "t">> }

RECURSIVE SeqsUpTo(_, _)
SeqsUpTo(S, n) ==
    IF n = 0 THEN { <<>> }
    ELSE LET shorter == SeqsUpTo(S, n - 1)
         IN  shorter \cup { Append(s, e) : s \in shorter, e \in S }

\* A file's content is what matters of its bytes: it cannot be opened
\* ("unreadable"), pdfplumber cannot extract it ("corrupt"), or the sequence
\* of chunks that extraction followed by splitting yields.
Contents == { [kind |-> "unreadable"], [kind |-> "corrupt"] } \cup
            { [kind |-> "pdf", chunks |-> s] : s \in SeqsUpTo(Text, MaxChunks) }

Files == { n \in FileNames : fs[n] # Absent }

(***************************************************************************)
(* process_pdfs.py                                                         *)
(***************************************************************************)
INGEST_MODEL == "all-MiniLM-L6-v2"
EMBEDDING_MODEL_NAME == "all-MPNET-base-v2"

EmbeddingDim(model) == IF model = "all-MiniLM-L6-v2" THEN 384 ELSE 768

Encode(model, text) ==
    [model |-> model, dim |-> EmbeddingDim(model), of |-> text]

\* hashlib.md5 over the file's bytes; raises when the file cannot be read
compute_file_hash(content) ==
    IF content.kind = "unreadable" THEN [raised |-> TRUE]
    ELSE [raised |-> FALSE, digest |-> <<"md5", content>>]

\* extract_text_from_pdf followed by splitter.split_text
ExtractAndSplit(content) ==
    IF content.kind = "corrupt" THEN [raised |-> TRUE]
    ELSE [raised |-> FALSE, chunks |-> content.chunks]

ChunkId(path, i) == <<Basename(path), "_chunk_", i>>

NewRecords(path, chunks) ==
    [ id \in { ChunkId(path, i - 1) : i \in 1..Len(chunks) } |->
        [ document  |-> chunks[id[3] + 1],
          embedding |-> Encode(INGEST_MODEL, chunks[id[3] + 1]),
          metadata  |-> [source |-> path, chunk_index |-> id[3]] ] ]

\* collection.add: an empty batch is rejected; an id that is already stored
\* is never overwritten: depending on the chromadb release the call raises
\* before writing anything, or keeps the stored record and inserts the rest.
CollectionAdd(coll, recs, policy) ==
    IF DOMAIN recs = {} THEN [raised |-> TRUE, coll |-> coll]
    ELSE IF policy = "raise" /\ (DOMAIN recs \cap DOMAIN coll) # {}
         THEN [raised |-> TRUE, coll |-> coll]
         ELSE [raised |-> FALSE, coll |-> coll @@ recs]

\* the records of the document's previous version are deleted first
chunk_and_store_pdf_replacing(coll, path, content, policy) ==
    LET ex == ExtractAndSplit(content)
        kept == { id \in DOMAIN coll : id[1] # Basename(path) }
    IN  IF ex.raised THEN [raised |-> TRUE, coll |-> coll]
        ELSE CollectionAdd([id \in kept |-> coll[id]],
                           NewRecords(path, ex.chunks), policy)

chunk_and_store_pdf(coll, path, content, policy) ==
    LET ex == ExtractAndSplit(content)
    IN  IF ex.raised THEN [raised |-> TRUE, coll |-> coll]
        ELSE CollectionAdd(coll, NewRecords(path, ex.chunks), policy)

LedgerGet(ledger, path) ==
    IF path \in DOMAIN ledger THEN PyStr(ledger[path]) ELSE None

\* the ledger looked up by file name instead of by path
IsUnchanged_keyedByName(ledger, path, digest) ==
    LedgerGet(ledger, Basename(path)) = PyStr(digest)

\* processed_files.get(file_path) == file_hash
IsUnchanged(ledger, path, digest) == LedgerGet(ledger, path) = PyStr(digest)

\* the new fingerprint is never recorded
LedgerPut_unrecorded(ledger, path, digest) == ledger

\* a fingerprint is recorded only for a path the ledger does not know yet
LedgerPut_keepsStale(ledger, path, digest) ==
    [ p \in DOMAIN ledger \cup {path} |->
        IF p \in DOMAIN ledger THEN ledger[p] ELSE digest ]

\* processed_files[file_path] = file_hash
LedgerPut(ledger, path, digest) ==
    [ p \in DOMAIN ledger \cup {path} |->
        IF p = path THEN digest ELSE ledger[p] ]

(***************************************************************************)
(* main.py: format_search_results                                          *)
(***************************************************************************)
Unknown == <<"u", "n", "k", "n", "o", "w", "n">>

\* dict.get(key, default) on a metadata dict
MetaGet(meta, key, default) ==
    IF key \in DOMAIN meta.v THEN meta.v[key] ELSE default

\* the source path is passed on without os.path.basename
FormatEntry_fullPath(doc, meta) ==
    IF IsDict(meta)
    THEN [ text        |-> doc,
           source      |-> Str(MetaGet(meta, "source", PyStr(Unknown))),
           chunk_index |-> MetaGet(meta, "chunk_index", -1) ]
    ELSE [ text |-> doc, source |-> Unknown, chunk_index |-> -1 ]

FormatEntry(doc, meta) ==
    IF IsDict(meta)
    THEN [ text        |-> doc,
           source      |-> Basename(Str(MetaGet(meta, "source",
                                                PyStr(Unknown)))),
           chunk_index |-> MetaGet(meta, "chunk_index", -1) ]
    ELSE [ text |-> doc, source |-> Unknown, chunk_index |-> -1 ]

\* x[0] if x and isinstance(x[0], list) else x
Unnest(x) == IF Truthy(x) /\ IsList(x.v[1]) THEN x.v[1] ELSE x

format_search_results(documents_nested, metadatas_nested) ==
    LET documents == Unnest(documents_nested)
        metadatas == Unnest(metadatas_nested)
    IN  IF ~IsList(documents) \/ ~IsList(metadatas)
        THEN <<>>
        ELSE [ i \in 1..Min(Len(documents.v), Len(metadatas.v)) |->
                 FormatEntry(documents.v[i], metadatas.v[i]) ]

(***************************************************************************)
(* retriever.py and the /search endpoint of main.py                        *)
(***************************************************************************)
DEFAULT_N_RESULTS == 3

Queries == {"x"}

\* every sequence of n distinct elements of S
RECURSIVE Orderings(_, _)
Orderings(S, n) ==
    IF n = 0 \/ S = {} THEN { <<>> }
    ELSE UNION { { <<e>> \o rest : rest \in Orderings(S \ {e}, n - 1) } :
                 e \in S }

DimMismatch(coll, qe) ==
    \E id \in DOMAIN coll : coll[id].embedding.dim # qe.dim

\* The id sequences collection.query may answer with: the n_results nearest
\* records (fewer when the collection is smaller), in the order of a
\* distance the model leaves open.
QueryHits(coll, qe, n_results) ==
    IF DimMismatch(coll, qe) THEN { <<>> }
    ELSE Orderings(DOMAIN coll, Min(n_results, Cardinality(DOMAIN coll)))

\* collection.query(query_embeddings=[qe], n_results, include=[...]):
\* raises when the store cannot be reached and when the query vector's
\* dimension is not the dimension of the stored vectors.
CollectionQuery(coll, qe, hits, unreachable) ==
    IF unreachable \/ DimMismatch(coll, qe)
    THEN [raised |-> TRUE]
    ELSE [ raised    |-> FALSE,
           documents |->
             PyList(<< PyList([i \in 1..Len(hits) |->
                                 PyStr(coll[hits[i]].document)]) >>),
           metadatas |->
             PyList(<< PyList([i \in 1..Len(hits) |->
                 PyDict([ source |->
                            PyStr(coll[hits[i]].metadata.source),
                          chunk_index |->
                            coll[hits[i]].metadata.chunk_index ])]) >>) ]

\* the except block re-raises instead of returning {"documents": []}
Retriever_search_propagates(coll, query, n_results, encodeRaises, hits, unreachable) ==
    LET query_embedding == Encode(EMBEDDING_MODEL_NAME, query)
        search_results == CollectionQuery(coll, query_embedding, hits,
                                          unreachable)
    IN  IF encodeRaises
        THEN [ raised |-> TRUE, failed |-> TRUE, passed |-> None,
               value |-> None ]
        ELSE IF search_results.raised
        THEN [ raised |-> TRUE, failed |-> TRUE,
               passed |-> query_embedding, value |-> None ]
        ELSE [ raised |-> FALSE, failed |-> FALSE,
               passed |-> query_embedding,
               value |-> [ documents |-> search_results.documents,
                           metadatas |-> search_results.metadatas ] ]

\* Retriever.search: the dict it returns, and the vector it handed to the
\* store (None when encode raised)
Retriever_search(coll, query, n_results, encodeRaises, hits, unreachable) ==
    LET query_embedding == Encode(EMBEDDING_MODEL_NAME, query)
        search_results == CollectionQuery(coll, query_embedding, hits,
                                          unreachable)
    IN  IF encodeRaises
        THEN [ raised |-> FALSE, failed |-> TRUE, passed |-> None,
               value |-> [documents |-> PyList(<<>>)] ]
        ELSE IF search_results.raised
        THEN [ raised |-> FALSE, failed |-> TRUE,
               passed |-> query_embedding,
               value |-> [documents |-> PyList(<<>>)] ]
        ELSE [ raised |-> FALSE, failed |-> FALSE,
               passed |-> query_embedding,
               value |-> [ documents |-> search_results.documents,
                           metadatas |-> search_results.metadatas ] ]

\* search_results.get(key, [])
ResultGet(d, key) == IF key \in DOMAIN d THEN d[key] ELSE PyList(<<>>)

\* the /search handler: status and "response" list
search(r) ==
    IF r.raised
    THEN [status |-> 500, response |-> <<>>]
    ELSE [ status |-> 200,
           response |-> format_search_results(
                            ResultGet(r.value, "documents"),
                            ResultGet(r.value, "metadatas")) ]

(***************************************************************************)
(* llm_integration.py                                                      *)
(***************************************************************************)
ESC == "\\x1b"
BadByte == "\\xff"          \* a byte that is not valid UTF-8
Bytes == {ESC, "[", "1", ";", "m", "K", "H", " ", BadByte}
ErrBytes == {"E", BadByte}

Fallback == <<"Error occurred during LLM processing.">>

\* bytes.decode(): UnicodeDecodeError on a byte that is not UTF-8
Decode(bytes) ==
    IF \E i \in 1..Len(bytes) : bytes[i] = BadByte
    THEN [raised |-> TRUE]
    ELSE [raised |-> FALSE, text |-> bytes]

\* end of the match of  \x1b\[[0-9;]*[mK]  that starts at i, 0 if none
RECURSIVE ParamsEnd(_, _)
ParamsEnd(s, j) ==
    IF j <= Len(s) /\ s[j] \in {"1", ";"} THEN ParamsEnd(s, j + 1) ELSE j

AnsiMatchEnd(s, i) ==
    IF i + 1 <= Len(s) /\ s[i] = ESC /\ s[i + 1] = "["
    THEN LET j == ParamsEnd(s, i + 2)
         IN  IF j <= Len(s) /\ s[j] \in {"m", "K"} THEN j ELSE 0
    ELSE 0

\* re.sub(r'\x1b\[[0-9;]*[mK]', '', text)
RECURSIVE CleanFrom(_, _)
CleanFrom(s, i) ==
    IF i > Len(s) THEN <<>>
    ELSE LET e == AnsiMatchEnd(s, i)
         IN  IF e > 0 THEN CleanFrom(s, e + 1)
             ELSE <<s[i]>> \o CleanFrom(s, i + 1)

clean_ansi(text) == CleanFrom(text, 1)

RECURSIVE LStrip(_)
LStrip(s) == IF s # <<>> /\ Head(s) = " " THEN LStrip(Tail(s)) ELSE s

RECURSIVE RStrip(_)
RStrip(s) ==
    IF s # <<>> /\ s[Len(s)] = " " THEN RStrip(SubSeq(s, 1, Len(s) - 1))
    ELSE s

Strip(s) == RStrip(LStrip(s))

\* generate_response on one outcome of the llama-run process: Popen or
\* communicate raises, or the process ends with the given output and error
\* bytes.  Everything after Popen sits in the same try block.
generate_response(proc) ==
    IF proc.raises THEN [raised |-> FALSE, value |-> Fallback]
    ELSE IF proc.stderr # <<>> /\ Decode(proc.stderr).raised
    THEN [raised |-> FALSE, value |-> Fallback]
    ELSE IF Decode(proc.stdout).raised
    THEN [raised |-> FALSE, value |-> Fallback]
    ELSE [ raised |-> FALSE,
           value |-> Strip(clean_ansi(Decode(proc.stdout).text)) ]

(***************************************************************************)
(* Raw results handed to format_search_results                             *)
(***************************************************************************)
SourcePaths == SeqsUpTo({"/", "f"}, MaxPathLen)

MetaDicts ==
    { PyDict(<<>>) } \cup
    { PyDict([source |-> src]) :
          src \in { PyStr(p) : p \in SourcePaths } \cup {PyInt(7)} } \cup
    { PyDict([chunk_index |-> 0]) } \cup
    { PyDict([source |-> src, chunk_index |-> 0]) :
          src \in { PyStr(p) : p \in SourcePaths } \cup {PyInt(7)} }

RawDocLists == { PyList(l) : l \in SeqsUpTo({ PyStr(c) : c \in Text }, MaxHits) }
RawMetaLists == { PyList(l) : l \in SeqsUpTo(MetaDicts \cup {None}, MaxHits) }

\* flat, or nested one level per query batch
RawShapes(lists) == lists \cup { PyList(<<l>>) : l \in lists }

Init ==
    /\ fs = [n \in FileNames |-> Absent]
    /\ ledgerFile = NoLedger
    /\ store = EmptyMap
    /\ dupPolicy \in {"raise", "ignore"}
    /\ pc = "idle"
    /\ processed_files = EmptyMap
    /\ todo = {}
    /\ ledgerAtStart = NoLedger
    /\ loaded = EmptyMap
    /\ storeAtStart = EmptyMap
    /\ fsAtStart = [n \in FileNames |-> Absent]
    /\ called = {}
    /\ stored = {}
    /\ skipped = {}
    /\ ledgerWrites = 0
    /\ savesAfterLoop = 0
    /\ repeatRun = FALSE
    /\ edits = 0
    /\ runs = 0
    /\ qvec = None
    /\ searchFailed = FALSE
    /\ searchRet = None
    /\ httpStatus = 0
    /\ httpBody = <<>>
    /\ fmtIn = None
    /\ fmtOut = <<>>
    /\ llmIn = None
    /\ llmOut = None

\* The user adds, replaces or removes a file between two runs.  A file that
\* is not named *.pdf is never opened, so one content stands for all of them.
EditFile ==
    /\ pc # "loop"
    /\ edits < MaxEdits
    /\ \E n \in FileNames, c \in Contents \cup {Absent} :
          /\ fs[n] # c
          /\ (~EndsWith(LowerStr(n), PdfSuffix)) => c.kind \in {"absent", "corrupt"}
          /\ fs' = [fs EXCEPT ![n] = c]
    /\ edits' = edits + 1
    /\ UNCHANGED <<ledgerFile, store, dupPolicy, pc, processed_files, todo,
                   ledgerAtStart, loaded, storeAtStart, fsAtStart, called,
                   stored, skipped, ledgerWrites, savesAfterLoop, repeatRun,
                   runs>>
    /\ UNCHANGED <<searchVars, fmtVars, llmVars>>

\* __main__ up to the loop: confirm_project_paths creates the ledger file
\* holding {} when it is missing, load_processed_files reads it, os.listdir
\* lists the directory.
StartRun ==
    /\ pc # "loop"
    /\ runs < MaxRuns
    /\ runs' = runs + 1
    /\ ledgerAtStart' = ledgerFile
    /\ storeAtStart' = store
    /\ fsAtStart' = fs
    /\ repeatRun' = (pc = "done" /\ fsAtStart = fs)
    /\ IF ~ledgerFile.exists
       THEN /\ ledgerFile' = [exists |-> TRUE, data |-> EmptyMap]
            /\ ledgerWrites' = 1
       ELSE /\ ledgerFile' = ledgerFile
            /\ ledgerWrites' = 0
    /\ processed_files' = ledgerFile'.data
    /\ loaded' = ledgerFile'.data
    /\ todo' = Files
    /\ called' = {}
    /\ stored' = {}
    /\ skipped' = {}
    /\ savesAfterLoop' = 0
    /\ pc' = "loop"
    /\ UNCHANGED <<fs, store, dupPolicy, edits>>
    /\ UNCHANGED <<searchVars, fmtVars, llmVars>>

\* One iteration of the loop over os.listdir(PDF_STORE), which fixes no
\* order.  An exception leaves the loop and ends the script: nothing after
\* the raising statement runs, save_processed_files included.
LoopStep ==
    /\ pc = "loop"
    /\ \E file_name \in todo :
          LET file_path == PathJoin(PDF_STORE, file_name)
              h == compute_file_hash(fs[file_name])
              r == chunk_and_store_pdf(store, file_path, fs[file_name],
                                       dupPolicy)
          IN  IF ~EndsWith(LowerStr(file_name), PdfSuffix)
              THEN /\ todo' = todo \ {file_name}
                   /\ UNCHANGED <<pc, store, processed_files, called,
                                  stored, skipped>>
              ELSE IF h.raised
              THEN /\ pc' = "aborted"
                   /\ UNCHANGED <<todo, store, processed_files, called,
                                  stored, skipped>>
              ELSE IF IsUnchanged(processed_files, file_path, h.digest)
              THEN /\ todo' = todo \ {file_name}
                   /\ skipped' = skipped \cup {file_path}
                   /\ UNCHANGED <<pc, store, processed_files, called,
                                  stored>>
              ELSE /\ called' = called \cup {file_path}
                   /\ store' = r.coll
                   /\ IF r.raised
                      THEN /\ pc' = "aborted"
                           /\ UNCHANGED <<todo, processed_files, stored>>
                      ELSE /\ processed_files' =
                                 LedgerPut(processed_files, file_path,
                                           h.digest)
                           /\ stored' = stored \cup {file_path}
                           /\ todo' = todo \ {file_name}
                           /\ pc' = pc
                   /\ UNCHANGED skipped
    /\ UNCHANGED <<fs, ledgerFile, dupPolicy, ledgerAtStart, loaded,
                   storeAtStart, fsAtStart, ledgerWrites, savesAfterLoop,
                   repeatRun, edits, runs>>
    /\ UNCHANGED <<searchVars, fmtVars, llmVars>>

\* save_processed_files called inside the loop, after each document
SaveLedger_insideLoop ==
    /\ pc = "loop"
    /\ ledgerFile' = [exists |-> TRUE, data |-> processed_files]
    /\ ledgerWrites' = ledgerWrites + 1
    /\ savesAfterLoop' = IF todo = {} THEN savesAfterLoop + 1
                          ELSE savesAfterLoop
    /\ pc' = IF todo = {} THEN "done" ELSE "loop"
    /\ UNCHANGED <<fs, store, dupPolicy, processed_files, todo,
                   ledgerAtStart, loaded, storeAtStart, fsAtStart, called,
                   stored, skipped, repeatRun, edits, runs>>
    /\ UNCHANGED <<searchVars, fmtVars, llmVars>>

\* save_processed_files(processed_files) after the loop
SaveLedger ==
    /\ pc = "loop"
    /\ todo = {}
    /\ ledgerFile' = [exists |-> TRUE, data |-> processed_files]
    /\ ledgerWrites' = ledgerWrites + 1
    /\ savesAfterLoop' = savesAfterLoop + 1
    /\ pc' = "done"
    /\ UNCHANGED <<fs, store, dupPolicy, processed_files, todo,
                   ledgerAtStart, loaded, storeAtStart, fsAtStart, called,
                   stored, skipped, repeatRun, edits, runs>>
    /\ UNCHANGED <<searchVars, fmtVars, llmVars>>

\* GET /search?query=...
Search ==
    /\ \E query \in Queries, encodeRaises \in BOOLEAN, unreachable \in BOOLEAN :
         \E hits \in QueryHits(store, Encode(EMBEDDING_MODEL_NAME, query),
                               DEFAULT_N_RESULTS) :
            LET r == Retriever_search(store, query, DEFAULT_N_RESULTS,
                                      encodeRaises, hits, unreachable)
                resp == search(r)
            IN  /\ qvec' = r.passed
                /\ searchFailed' = r.failed
                /\ searchRet' = [raised |-> r.raised, value |-> r.value]
                /\ httpStatus' = resp.status
                /\ httpBody' = resp.response
    /\ UNCHANGED <<ingestVars, fmtVars, llmVars>>

\* format_search_results applied to one raw result
FormatCall ==
    /\ fmtIn = None
    /\ \E d \in RawShapes(RawDocLists) \cup {None},
          m \in RawShapes(RawMetaLists) :
          /\ fmtIn' = [documents |-> d, metadatas |-> m]
          /\ fmtOut' = format_search_results(d, m)
    /\ UNCHANGED <<ingestVars, searchVars, llmVars>>

\* LLMIntegration.generate_response applied to one outcome of the process
LlmCall ==
    /\ llmIn = None
    /\ \E proc \in
            { [raises |-> TRUE, stdout |-> <<>>, stderr |-> <<>>] } \cup
            { [raises |-> FALSE, stdout |-> o, stderr |-> e] :
                  o \in SeqsUpTo(Bytes, MaxOut),
                  e \in SeqsUpTo(ErrBytes, MaxErr) } :
          /\ llmIn' = proc
          /\ llmOut' = generate_response(proc)
    /\ UNCHANGED <<ingestVars, searchVars, fmtVars>>

\* the ingestion script, run again and again over a changing directory
Next == EditFile \/ StartRun \/ LoopStep \/ SaveLedger

Spec == Init /\ [][Next]_vars

\* the query server next to the ingestion script
EditFileServing == edits < MaxSearchEdits /\ EditFile

NextSearch == EditFileServing \/ StartRun \/ LoopStep \/ SaveLedger \/ Search

SpecSearch == Init /\ [][NextSearch]_vars

NextFormat == FormatCall

SpecFormat == Init /\ [][NextFormat]_vars

NextLlm == LlmCall

SpecLlm == Init /\ [][NextLlm]_vars

(***************************************************************************)
(* Properties of the ingestion script                                      *)
(***************************************************************************)
IsPdfName(n) == EndsWith(LowerStr(n), PdfSuffix)

PathOf(n) == PathJoin(PDF_STORE, n)

\* the .pdf files the current run found, and those it is done with
PdfsOfRun == { n \in FileNames : fsAtStart[n] # Absent /\ IsPdfName(n) }
HandledPdfs == PdfsOfRun \ todo

\* the fingerprint the run computes for file n
FingerprintOf(n) == <<"md5", fsAtStart[n]>>

HasEntry(ledger, n, digest) ==
    /\ PathOf(n) \in DOMAIN ledger
    /\ ledger[PathOf(n)] = digest

IdsOf(n) == { <<n, "_chunk_", i>> : i \in 0..(MaxChunks + 1) }

\* C1: in one run chunk_and_store_pdf is called for a document only if the
\* ledger loaded at the start of the run has no entry for its path or an
\* entry that differs from the document's fingerprint; a document whose
\* entry equals its fingerprint is skipped, and none of its chunk records is
\* written.
C1_ProcessedOnlyIfNewOrChanged ==
    \A n \in PdfsOfRun :
        /\ PathOf(n) \in called => ~HasEntry(loaded, n, FingerprintOf(n))
        /\ (n \in HandledPdfs /\ HasEntry(loaded, n, FingerprintOf(n))) =>
              /\ PathOf(n) \in skipped
              /\ PathOf(n) \notin called
              /\ \A id \in IdsOf(n) :
                    /\ id \in DOMAIN store <=> id \in DOMAIN storeAtStart
                    /\ id \in DOMAIN store => store[id] = storeAtStart[id]

\* a run that skipped one document as unchanged and processed another
C1_Witness ==
    /\ pc = "done"
    /\ skipped # {}
    /\ stored # {}
    /\ \E n \in PdfsOfRun : HasEntry(loaded, n, FingerprintOf(n))

\* C2: a run that directly follows a completed run over the same files with
\* the same bytes skips every document and leaves the vector store as the
\* first run left it.
C2_SecondRunAddsNothing ==
    (repeatRun /\ pc \in {"loop", "done", "aborted"}) =>
        /\ called = {}
        /\ store = storeAtStart
        /\ pc # "aborted"
        /\ pc = "done" => skipped = { PathOf(n) : n \in PdfsOfRun }

\* the second of two runs over the same, non-empty document set has ended
C2_Witness ==
    /\ repeatRun
    /\ pc = "done"
    /\ skipped # {}
    /\ store # EmptyMap

\* C3: once a new or changed document has been processed, the ledger copy
\* holds its freshly computed fingerprint under its path, and the ledger a
\* completed run persists maps every .pdf file of the directory to its
\* current fingerprint.
C3_LedgerHoldsFreshFingerprint ==
    /\ \A n \in PdfsOfRun :
          PathOf(n) \in stored =>
              HasEntry(processed_files, n, FingerprintOf(n))
    /\ pc = "done" =>
          /\ ledgerFile.exists
          /\ \A n \in PdfsOfRun :
                HasEntry(ledgerFile.data, n, FingerprintOf(n))

\* a completed run replaced a stale ledger entry by the new fingerprint
C3_Witness ==
    /\ pc = "done"
    /\ \E n \in PdfsOfRun :
          /\ PathOf(n) \in stored
          /\ PathOf(n) \in DOMAIN loaded
          /\ loaded[PathOf(n)] # FingerprintOf(n)
          /\ ledgerFile.data[PathOf(n)] = FingerprintOf(n)

\* C6: after a changed document has been stored again, the record under
\* "<basename>_chunk_<i>" holds the chunk text, embedding and metadata of the
\* new version, for every chunk index i of the new version.
C6_ReingestOverwrites ==
    \A n \in PdfsOfRun :
        PathOf(n) \in stored =>
            \A i \in 1..Len(fsAtStart[n].chunks) :
                LET id == <<n, "_chunk_", i - 1>>
                IN  /\ id \in DOMAIN store
                    /\ store[id].document = fsAtStart[n].chunks[i]
                    /\ store[id].embedding.of = fsAtStart[n].chunks[i]
                    /\ store[id].metadata =
                          [source |-> PathOf(n), chunk_index |-> i - 1]

\* C8 as stated: the ledger file is written exactly once in a run, after the
\* last document, and a run that aborts leaves the ledger file exactly as it
\* was when the run started.
C8_LedgerWrittenOnce ==
    /\ pc = "loop" => ledgerWrites = 0
    /\ pc = "done" => ledgerWrites = 1
    /\ pc = "aborted" => ledgerWrites = 0 /\ ledgerFile = ledgerAtStart

\* what the run loaded: the ledger file, or {} when the run had to create it
LedgerLoadedAtStart ==
    IF ledgerAtStart.exists THEN ledgerAtStart.data ELSE EmptyMap

C8_RunInvariant ==
    /\ pc \in {"loop", "done", "aborted"} =>
          /\ loaded = LedgerLoadedAtStart
          /\ ledgerWrites =
                savesAfterLoop + (IF ledgerAtStart.exists THEN 0 ELSE 1)
    /\ pc = "loop" => savesAfterLoop = 0 /\ ledgerFile.data = loaded
    /\ pc = "done" => savesAfterLoop = 1 /\ todo = {}
    /\ pc = "aborted" =>
          /\ savesAfterLoop = 0
          /\ ledgerFile = [exists |-> TRUE, data |-> loaded]
          /\ todo # {}
          /\ \A n \in todo :
                PathOf(n) \notin stored /\ PathOf(n) \notin skipped
          /\ Cardinality(called \ stored) <= 1

C8_AbortIsFinal ==
    (pc = "aborted" /\ pc' = "aborted") =>
        /\ store' = store
        /\ ledgerFile' = ledgerFile
        /\ processed_files' = processed_files
        /\ called' = called /\ stored' = stored /\ skipped' = skipped

\* C8, amended: save_processed_files writes the ledger file exactly once in
\* a run, after the last document; the only other write is
\* confirm_project_paths creating the file with {} when it is missing.  A
\* run that a document aborts processes no later document and leaves the
\* persisted ledger equal to the ledger it loaded at its start.
C8_SavedOnceAfterLoop == []C8_RunInvariant /\ [][C8_AbortIsFinal]_vars

\* a run aborted at its second document, after storing the first one's chunks
C8_Witness ==
    /\ pc = "aborted"
    /\ stored # {}
    /\ store # storeAtStart
    /\ ledgerFile.data = LedgerLoadedAtStart

\* a record is stale when its document's current version has fewer chunks
IsStale(id) ==
    \E n \in FileNames :
        /\ id[1] = n
        /\ fs[n].kind = "pdf"
        /\ id[3] >= Len(fs[n].chunks)

C9_Step ==
    \A id \in DOMAIN store :
        /\ id \in DOMAIN store'
        /\ IsStale(id) => store'[id] = store[id]

\* C9: ingestion never deletes a chunk record: the set of chunk ids only
\* grows, and the records under the higher chunk indices of a document that
\* was replaced by a shorter version stay in the store unchanged.
C9_NeverDeletes == [][C9_Step]_vars

\* a document was stored again in a shorter version and a record of the
\* longer version is still there
C9_Witness ==
    /\ pc = "done"
    /\ \E n \in PdfsOfRun :
          /\ PathOf(n) \in stored
          /\ fs[n] = fsAtStart[n]
          /\ \E id \in DOMAIN store : id[1] = n /\ IsStale(id)

(***************************************************************************)
(* Properties of retrieval                                                 *)
(***************************************************************************)
\* C4: every query vector the Retriever hands to the vector store comes
\* from the embedding model ingestion used for the stored chunk vectors and
\* has their dimension.
C4_QueryUsesIngestionModel ==
    qvec # None =>
        /\ qvec.model = INGEST_MODEL
        /\ \A id \in DOMAIN store :
              /\ store[id].embedding.model = qvec.model
              /\ store[id].embedding.dim = qvec.dim

\* C5: when encoding the query or querying the store raises,
\* Retriever.search returns the empty result {"documents": []} instead of
\* raising, and /search answers with an empty result list, not an error.
C5_FailedSearchGivesEmptyList ==
    searchFailed =>
        /\ searchRet = [raised |-> FALSE, value |-> [documents |-> PyList(<<>>)]]
        /\ httpStatus = 200
        /\ httpBody = <<>>

\* a search whose store query raised against a populated store
C5_Witness ==
    /\ searchFailed
    /\ qvec # None
    /\ store # EmptyMap
    /\ httpStatus = 200

(***************************************************************************)
(* Properties of format_search_results                                     *)
(***************************************************************************)
\* the list the store returned for the first query batch
FirstBatch(x) ==
    IF x.v # <<>> /\ x.v[1].t = "list" THEN x.v[1].v ELSE x.v

\* b is what follows the last "/" of p
IsBasenameOf(b, p) ==
    \E k \in 0..Len(p) :
        /\ b = SubSeq(p, k + 1, Len(p))
        /\ \A i \in 1..Len(b) : b[i] # "/"
        /\ k = 0 \/ p[k] = "/"

ExpectedSource(meta, source) ==
    IF meta.t = "dict" /\ "source" \in DOMAIN meta.v
    THEN IF meta.v.source.t = "str"
         THEN IsBasenameOf(source, meta.v.source.v)
         ELSE source = <<"7">>
    ELSE source = Unknown

ExpectedIndex(meta, index) ==
    IF meta.t = "dict" /\ "chunk_index" \in DOMAIN meta.v
    THEN index = meta.v.chunk_index
    ELSE index = -1

\* C10: format_search_results turns a flat or one-level nested raw result
\* into a flat list in the store's order with one entry per returned
\* document that has a metadata entry, the entry's source being the
\* basename of the metadata's source path, with source "unknown" and
\* chunk_index -1 where the metadata entry or the field is missing.
C10_FormatsRawResult ==
    fmtIn # None =>
        IF fmtIn.documents.t # "list" THEN fmtOut = <<>>
        ELSE LET docs == FirstBatch(fmtIn.documents)
                 metas == FirstBatch(fmtIn.metadatas)
             IN  /\ Len(fmtOut) = Min(Len(docs), Len(metas))
                 /\ Len(fmtOut) <= Len(docs)
                 /\ \A i \in 1..Len(fmtOut) :
                       /\ DOMAIN fmtOut[i] = {"text", "source", "chunk_index"}
                       /\ fmtOut[i].text = docs[i]
                       /\ ExpectedSource(metas[i], fmtOut[i].source)
                       /\ ExpectedIndex(metas[i], fmtOut[i].chunk_index)

\* a nested result of two hits: one whose source path has a directory part,
\* one without a metadata entry
C10_Witness ==
    /\ fmtIn # None
    /\ fmtIn.documents.t = "list"
    /\ fmtIn.documents.v # <<>>
    /\ fmtIn.documents.v[1].t = "list"
    /\ Len(fmtOut) = 2
    /\ fmtOut[1].text # fmtOut[2].text
    /\ \E i \in 1..2 :
          LET meta == FirstBatch(fmtIn.metadatas)[i]
          IN  /\ meta.t = "dict"
              /\ "source" \in DOMAIN meta.v
              /\ meta.v.source = PyStr(<<"/", "f">>)
              /\ fmtOut[i].source = <<"f">>
    /\ \E i \in 1..2 :
          /\ FirstBatch(fmtIn.metadatas)[i] = None
          /\ fmtOut[i].source = Unknown
          /\ fmtOut[i].chunk_index = -1

(***************************************************************************)
(* Properties of generate_response                                         *)
(***************************************************************************)
\* C7: generate_response never raises; it returns the fallback text when
\* running or reading the process raises, and otherwise the captured
\* standard output with ANSI sequences stripped and whitespace trimmed,
\* whatever the process wrote to its error stream.
C7_ErrorStreamOnlyLogged ==
    llmIn # None =>
        /\ llmOut.raised = FALSE
        /\ llmOut.value =
              IF llmIn.raises \/ Decode(llmIn.stdout).raised
              THEN Fallback
              ELSE Strip(clean_ansi(Decode(llmIn.stdout).text))
====
